---- MODULE Spec2Model ----
(***************************************************************************)
(* Transient criticality feedback loop of transientmodel.py (main), with   *)
(* the region model of tm_material.py and the file operations of           *)
(* tm_fileops.py.                                                          *)
(*                                                                         *)
(* The program computes in floating point; the model computes in fixed     *)
(* point, every quantity being an integer number of the unit named here:   *)
(*   time                 microseconds                  (timer, DELTA_T)   *)
(*   recorded time        1e-4 s                        (record)           *)
(*   k-eff, sigma         1e-6                                             *)
(*   k-eff + 2 sigma      1e-5                          (round(.., 5))     *)
(*   lifetime             microseconds                                     *)
(*   nu-bar               1e-3 neutrons per fission                        *)
(*   neutrons, fissions   1e7                                              *)
(*   fission fraction     1e-3                                             *)
(*   height, base_height  1e-2 cm                                          *)
(*   radius               cm                                               *)
(*   volume               1e-2 cm^3                                        *)
(*   base                 cm^2                                             *)
(*   mass                 microgram                                        *)
(*   temperature          K                                                *)
(*   specific heat        J/kg-K                                           *)
(*   expansion coeff.     1e-5 / K                                         *)
(*   number density       per nuclide, the unit that makes the initial     *)
(*                        value a four-digit integer (see NDENS)           *)
(*   atoms                number density unit * 1e24 * volume unit         *)
(* A float division a / b is the integer division a \div b of the scaled   *)
(* operands.  A division of Python floats raises ZeroDivisionError where   *)
(* b = 0; a division with a numpy.float64 operand gives inf, -inf or nan   *)
(* there (PosInf, NegInf, NaN below), which then propagate as in IEEE 754. *)
(***************************************************************************)
EXTENDS Integers, Sequences, FiniteSets, TLC

(***************************************************************************)
(* Bounds of the model.                                                    *)
(***************************************************************************)
MaxTicks == 2

(***************************************************************************)
(* tm_constants.py                                                         *)
(***************************************************************************)
TIMESTEP_MAGNITUDE == -3
DELTA_T == 1000
INIT_NEUTRONS == 1000
INIT_HEIGHT == 5300
RAD == 15
NUM_AXIAL == 4
NUM_RADIAL == 3
NUM_MATERIALS == NUM_AXIAL * NUM_RADIAL

(***************************************************************************)
(* Thresholds of the two loops of main: the expansion loop runs while      *)
(* keff > 1.0; the material addition loop (commented out in the source)    *)
(* ran while keff < 1.01.                                                  *)
(***************************************************************************)
Floor == 1000000
Ceiling == 1010000

Regions == 1..NUM_MATERIALS
Rows == 1..NUM_AXIAL
Cols == 1..NUM_RADIAL

(***************************************************************************)
(* State                                                                   *)
(***************************************************************************)
VARIABLES
    pc,               \* position in main
    err,              \* the exception that ended the run, "" if none
    filename,         \* the current deck name
    outfilename,      \* the current report name
    materials,        \* the grid: rows of regions
    heights,          \* the matrix of region heights
    tot_height,
    timer,
    total_neutrons,
    total_fissions,
    lifetime, keff, keffmax, nubar,
    fission_profile,
    fissions,
    temperatures,
    maxtemp,
    disk,             \* output files by name
    decks,            \* the decks written, in order
    calls,            \* the runs of batch6.1, in order
    results,          \* the lines of results.txt
    solved            \* the reports parsed by get_transient, in order

prog == <<filename, outfilename, materials, heights, tot_height, timer,
          total_neutrons, total_fissions, lifetime, keff, keffmax, nubar,
          fission_profile, fissions, temperatures, maxtemp>>
env == <<disk, decks, calls, results, solved>>
vars == <<pc, err, prog, env>>

(***************************************************************************)
(* Floats.  inf, -inf and nan are three integers outside the range of the  *)
(* finite values of the model.                                             *)
(***************************************************************************)
PosInf == 2000000000
NegInf == -2000000000
NaN == 2100000000

IsFinite(x) == x \notin {PosInf, NegInf, NaN}

\* -x
FNeg(x) ==
    IF x = NaN THEN NaN
    ELSE IF x = PosInf THEN NegInf
    ELSE IF x = NegInf THEN PosInf
    ELSE -x

\* a + b
FAdd(a, b) ==
    IF a = NaN \/ b = NaN THEN NaN
    ELSE IF ~ IsFinite(a) THEN (IF ~ IsFinite(b) /\ b # a THEN NaN ELSE a)
    ELSE IF ~ IsFinite(b) THEN b
    ELSE a + b

\* a - b
FSub(a, b) == FAdd(a, FNeg(b))

\* a * b
FMul(a, b) ==
    IF a = NaN \/ b = NaN THEN NaN
    ELSE IF ~ IsFinite(a) \/ ~ IsFinite(b)
         THEN (IF a = 0 \/ b = 0 THEN NaN
               ELSE IF (a > 0) = (b > 0) THEN PosInf ELSE NegInf)
    ELSE a * b

\* a < b: False when an operand is nan
FLt(a, b) == a # NaN /\ b # NaN /\ a < b

\* a / b where an operand is a numpy.float64: no exception; a zero divisor
\* (0.0, positive) gives inf, -inf or nan with a RuntimeWarning
np_div(a, b) ==
    IF a = NaN \/ b = NaN THEN NaN
    ELSE IF b = 0 THEN (IF a = 0 THEN NaN ELSE IF a > 0 THEN PosInf ELSE NegInf)
    ELSE IF ~ IsFinite(a)
         THEN (IF ~ IsFinite(b) THEN NaN
               ELSE IF (a > 0) = (b > 0) THEN PosInf ELSE NegInf)
    ELSE IF ~ IsFinite(b) THEN 0
    ELSE a \div b

\* the change of unit of a float: a division by a positive constant
Scale(x, n) == IF IsFinite(x) THEN x \div n ELSE x

(***************************************************************************)
(* Strings are sequences of one-character strings.                        *)
(***************************************************************************)
DigitChars == <<"0", "1", "2", "3", "4", "5", "6", "7", "8", "9">>
Digits == {DigitChars[i] : i \in 1..10}
DotInp == <<".", "i", "n", "p">>
Whitespace == {" ", "\t", "\n", "\r"}

\* str.endswith(suffix)
EndsWith(s, suf) ==
    /\ Len(s) >= Len(suf)
    /\ SubSeq(s, Len(s) - Len(suf) + 1, Len(s)) = suf

\* str.strip(chars): drop the leading and the trailing characters that are
\* members of chars
RECURSIVE LStrip(_, _)
LStrip(s, chars) ==
    IF s # <<>> /\ Head(s) \in chars THEN LStrip(Tail(s), chars) ELSE s

RECURSIVE RStrip(_, _)
RStrip(s, chars) ==
    IF s # <<>> /\ s[Len(s)] \in chars
    THEN RStrip(SubSeq(s, 1, Len(s) - 1), chars) ELSE s

Strip(s, chars) == RStrip(LStrip(s, chars), chars)

\* re.sub(r'\d', r'', s)
RECURSIVE RemoveDigits(_)
RemoveDigits(s) ==
    IF s = <<>> THEN <<>>
    ELSE IF Head(s) \in Digits THEN RemoveDigits(Tail(s))
         ELSE <<Head(s)>> \o RemoveDigits(Tail(s))

\* re.sub(r'\.', r'', s)
RECURSIVE RemoveDots(_)
RemoveDots(s) ==
    IF s = <<>> THEN <<>>
    ELSE IF Head(s) = "." THEN RemoveDots(Tail(s))
         ELSE <<Head(s)>> \o RemoveDots(Tail(s))

\* str.replace("inp", "out"): every non-overlapping occurrence, left to right
RECURSIVE ReplaceInpOut(_)
ReplaceInpOut(s) ==
    IF Len(s) < 3 THEN s
    ELSE IF SubSeq(s, 1, 3) = <<"i", "n", "p">>
         THEN <<"o", "u", "t">> \o ReplaceInpOut(SubSeq(s, 4, Len(s)))
         ELSE <<Head(s)>> \o ReplaceInpOut(Tail(s))

\* decimal digits of a natural number
RECURSIVE IntDigits(_)
IntDigits(n) ==
    IF n < 10 THEN <<DigitChars[n + 1]>>
    ELSE IntDigits(n \div 10) \o <<DigitChars[(n % 10) + 1]>>

\* round(timer, abs(TIMESTEP_MAGNITUDE) + 1): microseconds to the nearest 1e-4 s
RoundTime(t) == (t + 50) \div 100

\* str(x) of a float x >= 1e-4 given in units of 1e-4: the integer part, a
\* point, and the fraction without trailing zeros (at least one digit)
FracDigits(f) ==
    LET four == <<DigitChars[(f \div 1000) + 1], DigitChars[((f \div 100) % 10) + 1],
                  DigitChars[((f \div 10) % 10) + 1], DigitChars[(f % 10) + 1]>>
        cut == RStrip(four, {"0"})
    IN  IF cut = <<>> THEN <<"0">> ELSE cut

FloatStr(r) == IntDigits(r \div 10000) \o <<".">> \o FracDigits(r % 10000)

\* the deck name of a tick: the previous name stripped of the characters of
\* ".inp" at both ends and of its digits, then the digits of the rounded time
NextFilename(fname, t) ==
    RemoveDigits(Strip(fname, {".", "i", "n", "p"}))
        \o RemoveDots(FloatStr(RoundTime(t))) \o DotInp

\* the name entered by the user, '.inp' appended when missing
NormalizeFilename(name) == IF EndsWith(name, DotInp) THEN name ELSE name \o DotInp

(***************************************************************************)
(* The names a user may enter.                                             *)
(***************************************************************************)
FileNames ==
    { <<"a">>, <<"a", ".", "i", "n", "p">>, <<"0", "0", "0", "1">>, <<"p", "a", "1">> }

(***************************************************************************)
(* Reports of the external solver (batch6.1).  A report is what the        *)
(* parsers of tm_fileops.py can find in an output file:                    *)
(*   lines     which of the lines "lifetime", "best estimate system k-eff" *)
(*             and "system nu bar" the file holds                          *)
(*   keff, sigma, lifetime, nubar   the numbers on those lines             *)
(*   fis       the fission density of every region (0 where the table has  *)
(*             no row for it)                                              *)
(*   vols, masses   the volume and mass of every region (0 where the       *)
(*             table has no row for it)                                    *)
(***************************************************************************)
ColOf(id) == ((id - 1) % NUM_RADIAL) + 1
RowOf(id) == ((id - 1) \div NUM_RADIAL) + 1

AllLines == {"lifetime", "keff", "nubar"}

FullVols == [id \in Regions |-> 15900 * (2 * ColOf(id) - 1)]
\* volumes that are not multiples of the heights, so that volume / height
\* is not exact
MeasuredVols == [id \in Regions |-> <<15911, 47733, 79555>>[ColOf(id)]]
FullMasses == [id \in Regions |-> 500]
ProfileA == [id \in Regions |-> <<1, 2, 2, 1>>[RowOf(id)] * <<3, 2, 1>>[ColOf(id)]]
ProfileB == [id \in Regions |-> <<3, 2, 1, 0>>[RowOf(id)]]
NoTable == [id \in Regions |-> 0]

GoodReport(k, prof) ==
    [lines |-> AllLines, keff |-> k, sigma |-> 1234, lifetime |-> 100,
     nubar |-> 2500, fis |-> prof, vols |-> FullVols, masses |-> FullMasses]

BaseReport == GoodReport(1005000, ProfileA)

Reports ==
    { GoodReport(k, prof) : k \in {995000, 1000000, 1005000, 1015000},
                            prof \in {ProfileA, ProfileB} }
    \cup { [BaseReport EXCEPT !.nubar = 0],
           [BaseReport EXCEPT !.nubar = -2500],
           [BaseReport EXCEPT !.vols = [FullVols EXCEPT ![1] = 0]],
           [BaseReport EXCEPT !.vols = MeasuredVols],
           [BaseReport EXCEPT !.masses = [FullMasses EXCEPT ![2] = 0]],
           [BaseReport EXCEPT !.lines = AllLines \ {"lifetime"}],
           [BaseReport EXCEPT !.fis = NoTable] }

\* what a run of batch6.1 leaves behind: a report, or no output file at all
NoReport == [lines |-> {}, keff |-> 0, sigma |-> 0, lifetime |-> 0,
             nubar |-> 0, fis |-> NoTable, vols |-> NoTable, masses |-> NoTable]
SolverOutcomes == Reports \cup {NoReport}
\* the outcomes of the run of a tick: its report is read by get_transient and
\* count_fissions only, so its volume and mass tables are not varied
TickOutcomes ==
    { r \in SolverOutcomes :
        r = NoReport \/ (r.vols = FullVols /\ r.masses = FullMasses) }

(***************************************************************************)
(* tm_fileops.py: the parsers                                              *)
(***************************************************************************)
RECURSIVE SumTo(_, _)
SumTo(f, n) == IF n = 0 THEN 0 ELSE f[n] + SumTo(f, n - 1)

\* count_fissions: the fission densities normalised by their sum
fissionsum(rep) == SumTo(rep.fis, NUM_MATERIALS)
count_fissions(rep) ==
    [id \in Regions |-> (rep.fis[id] * 1000) \div fissionsum(rep)]

\* get_transient: (lifetime, keff, maxkeff, nubar); a name never assigned
\* raises UnboundLocalError at the return
get_transient_fails(rep) == rep.lines # AllLines
get_transient(rep) ==
    [lifetime |-> rep.lifetime, keff |-> rep.keff,
     keffmax |-> (rep.keff + 2 * rep.sigma + 5) \div 10, nubar |-> rep.nubar]

\* get_volumes, get_masses: a list preset to 0.0, filled from the table
get_volumes(rep) == rep.vols
get_masses(rep) == rep.masses

(***************************************************************************)
(* CoolProp's PropsSI for water at 101325 Pa, tabulated                    *)
(***************************************************************************)
\* what PropsSI does when the temperature is not a finite number: CoolProp
\* either returns a number all the same or raises ValueError
PropsOutcomes == {"value", "ValueError"}
PropsSI_fails(temp, props) == props = "ValueError" /\ ~ IsFinite(temp)
\* the outcomes that differ for the temperatures of a grid
PropsChoices(mats) ==
    IF \A ax \in Rows : \A rad \in Cols : IsFinite(mats[ax][rad].temp)
    THEN {"value"} ELSE PropsOutcomes

\* PropsSI('C', 'T', temp, 'P', pressure, 'WATER')
SpecHeat(temp) ==
    IF temp < 290 THEN 4190
    ELSE IF temp < 340 THEN 4180
    ELSE IF temp < 373 THEN 4200
    ELSE 2080

\* PropsSI('ISOBARIC_EXPANSION_COEFFICIENT', 'T', temp, 'P', pressure, 'WATER')
ExpansionCoeff(temp) ==
    IF temp < 277 THEN -3
    ELSE IF temp < 290 THEN 9
    ELSE IF temp < 310 THEN 27
    ELSE IF temp < 330 THEN 42
    ELSE IF temp < 350 THEN 55
    ELSE IF temp < 373 THEN 69
    ELSE 290

(***************************************************************************)
(* tm_material.py: class Material                                          *)
(***************************************************************************)
\* main, lines 82-83: the nuclides h, n, o, u-234, u-235, u-236, u-238 and
\* their number densities 6.258e-2, 1.569e-3, 3.576e-2, 1.060e-6, 1.686e-4,
\* 4.350e-7, 1.170e-5 a/b-cm, in units of 1e-5, 1e-6, 1e-5, 1e-9, 1e-7,
\* 1e-10, 1e-8; the same list is given to every region
NDENS == <<6258, 1569, 3576, 1060, 1686, 4350, 1170>>
Nuclides == 1..Len(NDENS)

\* Material.__init__.  np64 names the attributes that hold a numpy.float64;
\* the others hold a Python float (or int), whose division by zero raises
Material(matnum, height, base_height, radius, temp) ==
    [matnum |-> matnum, ndens |-> NDENS, temp |-> temp, height |-> height,
     base_height |-> base_height, radius |-> radius, volume |-> 0,
     base |-> 0, mass |-> 0, delta_temp |-> 0,
     atoms |-> [i \in Nuclides |-> 0], np64 |-> {}]

\* Material.append_volume_mass_init with __calc_init
append_volume_mass_init(m, volume, mass) ==
    [m EXCEPT !.volume = volume, !.mass = mass,
              !.atoms = [i \in Nuclides |-> m.ndens[i] * volume],
              !.base = volume \div m.height]

\* the height and the volume append_height assigns before it calls __update;
\* the volume is a numpy.float64 when the new height is one
set_height(m, newheight, isnp) ==
    [m EXCEPT !.height = newheight, !.volume = FMul(m.base, newheight),
              !.np64 = IF isnp THEN @ \cup {"height", "volume"}
                       ELSE @ \ {"height", "volume"}]

\* Material.append_height without the call of __update
append_height_noupdate(m, newheight, isnp) == set_height(m, newheight, isnp)

\* Material.append_height with __update; __update divides by the new volume,
\* which raises when the volume is a Python float and zero
append_height_fails(m, newheight, isnp) == ~ isnp /\ FMul(m.base, newheight) = 0
append_height(m, newheight, isnp) ==
    LET volume == FMul(m.base, newheight)
    IN  [set_height(m, newheight, isnp) EXCEPT
            !.ndens = [i \in Nuclides |-> np_div(m.atoms[i], volume)]]

\* Material.calc_temp; fissions is a numpy.float64 (a product with the result
\* of np.exp), and so are heatgen and newtemp: a mass of 0.0 raises nothing
heatgen(fis) == Scale(FMul(fis, 180 * 16022), 10000)
calc_temp(m, fis) ==
    LET newtemp == FAdd(m.temp, np_div(np_div(FMul(heatgen(fis), 1000), m.mass),
                                       SpecHeat(m.temp)))
    IN  [m EXCEPT !.delta_temp = FSub(newtemp, m.temp), !.temp = newtemp,
                  !.np64 = @ \cup {"temp", "delta_temp"}]

\* delta_height with the temperature delta of this tick's fissions, as if
\* calc_temp had run before expand
delta_height_heatfirst(m) ==
    LET h == calc_temp(m, fissions[m.matnum])
    IN  Scale(np_div(FMul(FMul(h.delta_temp, h.volume), ExpansionCoeff(h.temp)),
                     h.base), 100000)

\* Material.expand: delta_temp * volume * expansion / base is a division of
\* Python floats until calc_temp or append_height has stored a numpy.float64
delta_height_np(m) == "delta_temp" \in m.np64 \/ "volume" \in m.np64
delta_height_fails(m) == ~ delta_height_np(m) /\ m.base = 0
delta_height(m) ==
    Scale(np_div(FMul(FMul(m.delta_temp, m.volume), ExpansionCoeff(m.temp)),
                 m.base), 100000)
newheight_np(m) == "height" \in m.np64 \/ delta_height_np(m)
expand_fails(m) ==
    \/ delta_height_fails(m)
    \/ append_height_fails(m, FAdd(m.height, delta_height(m)), newheight_np(m))
expand(m) == append_height(m, FAdd(m.height, delta_height(m)), newheight_np(m))

\* Material.geometry_string
geometry_string(m) ==
    [matnum |-> m.matnum, radius |-> m.radius, height |-> m.height,
     base_height |-> m.base_height]

(***************************************************************************)
(* transientmodel.py: helpers of main                                      *)
(***************************************************************************)
\* exp(x) for x in units of 1e-3, in units of 1e-3: the power series, summed
\* until a term vanishes
RECURSIVE ExpTerms(_, _, _)
ExpTerms(x, term, k) ==
    IF term = 0 \/ k > 12 THEN 0
    ELSE term + ExpTerms(x, (term * x) \div (1000 * k), k + 1)
Exp(x) == ExpTerms(x, 1000, 1)

\* propagate_neutrons: neutrons * exp((k_eff - 1) / lifetime * DELTA_T)
propagate_neutrons(k_eff, lt, neutrons) ==
    (neutrons * Exp((((k_eff - 1000000) * DELTA_T) \div lt) \div 1000)) \div 1000

\* calc_heights, calc_radii
calc_heights(tot) ==
    [ind \in Rows |-> ind * (tot \div NUM_AXIAL)]
calc_radii(tot_rad) ==
    [ind \in Cols |-> ind * (tot_rad \div NUM_RADIAL)]

\* the base_height set_materials gives to a row: 0 for the first row, then the
\* height of the row built before it
row_base(hs, ax) == IF ax = 1 THEN 0 ELSE hs[ax - 1]

\* set_materials without the 'temp' keyword: every region starts at 300 K
set_materials(tot, tot_radius) ==
    LET hs == calc_heights(tot)
        rs == calc_radii(tot_radius)
    IN  [ax \in Rows |->
           [rad \in Cols |->
              Material((ax - 1) * NUM_RADIAL + rad, hs[ax], row_base(hs, ax),
                       rs[rad], 300)]]

MatOf(mats, id) == mats[RowOf(id)][ColOf(id)]

\* max(f[1], ..., f[n]): the first item, replaced by every later item that
\* compares greater (a nan never does, and is never replaced)
RECURSIVE MaxTo(_, _)
MaxTo(f, n) == IF n = 1 THEN f[1] ELSE
    LET rest == MaxTo(f, n - 1) IN IF FLt(rest, f[n]) THEN f[n] ELSE rest

\* sum(f[1], ..., f[n]) of floats
RECURSIVE FSumTo(_, _)
FSumTo(f, n) == IF n = 0 THEN 0 ELSE FAdd(FSumTo(f, n - 1), f[n])

\* fissions = [frac * total_neutrons / nubar for frac in fission_profile];
\* total_neutrons is a numpy.float64 (the result of np.exp)
distribute(profile, neutrons, nb) ==
    [id \in Regions |-> np_div(FMul(profile[id], neutrons), nb)]

\* write_file: the deck; its geometry section, the enclosing cylinder and the
\* volume-calculation directive
Deck(name, mats, tot, volcalc) ==
    [name |-> name, volcalc |-> volcalc, tot_height |-> tot,
     geometry |-> [id \in Regions |-> geometry_string(MatOf(mats, id))]]

\* record: one line of results.txt
Header == [kind |-> "header"]
Row(time, numfissions, maxt, lt, k, kmax) ==
    [kind |-> "row", time |-> RoundTime(time), numfissions |-> numfissions,
     maxt |-> maxt, lifetime |-> lt, keff |-> k, keffmax |-> kmax]

(***************************************************************************)
(* The two loops over the grid in one tick: the expansion (rows from the   *)
(* bottom, columns from the centre) and the heating.                       *)
(***************************************************************************)
\* heights[ax_ind - 1, rad_ind], read while the loop runs
below_height_stale(hts, ax, rad) == heights[ax - 1][rad]
below_height(hts, ax, rad) == hts[ax - 1][rad]

\* lines 173-176: the shift of a region onto the region below it; heights is
\* a numpy array
shift(m, hts, ax, rad) ==
    IF ax # 1
    THEN [m EXCEPT !.base_height = below_height(hts, ax, rad),
                   !.height = FAdd(m.height,
                                   FSub(below_height(hts, ax, rad), m.base_height)),
                   !.np64 = @ \cup {"height", "base_height"}]
    ELSE m

\* lines 173-181 for one region; st holds the grid, the heights matrix, the
\* total height and the exception raised so far ("" if none)
ExpandRegion(st, id, props) ==
    LET ax == RowOf(id)
        rad == ColOf(id)
        sh == shift(st.mats[ax][rad], st.hts, ax, rad)
        newheight == FAdd(sh.height, delta_height(sh))
        m == expand(sh)
    IN  IF PropsSI_fails(sh.temp, props)
        THEN [st EXCEPT !.mats[ax][rad] = sh, !.err = "ValueError"]
        ELSE IF delta_height_fails(sh)
        THEN [st EXCEPT !.mats[ax][rad] = sh, !.err = "ZeroDivisionError"]
        ELSE IF append_height_fails(sh, newheight, newheight_np(sh))
        THEN [st EXCEPT !.mats[ax][rad] = set_height(sh, newheight, newheight_np(sh)),
                        !.err = "ZeroDivisionError"]
        ELSE [st EXCEPT !.mats[ax][rad] = m,
                        !.hts[ax][rad] = m.height,
                        !.tot = IF FLt(@, m.height) THEN m.height ELSE @]

\* the regions id..NUM_MATERIALS in the order of the two loops, up to the
\* first exception
RECURSIVE ExpandFrom(_, _, _)
ExpandFrom(st, id, props) ==
    IF id > NUM_MATERIALS \/ st.err # "" THEN st
    ELSE ExpandFrom(ExpandRegion(st, id, props), id + 1, props)

\* lines 192-196 for the regions id..NUM_MATERIALS, up to the first exception
RECURSIVE HeatFrom(_, _, _, _)
HeatFrom(st, fis, id, props) ==
    IF id > NUM_MATERIALS \/ st.err # "" THEN st
    ELSE LET ax == RowOf(id)
             rad == ColOf(id)
             m == calc_temp(st.mats[ax][rad], fis[id])
         IN  IF PropsSI_fails(st.mats[ax][rad].temp, props)
             THEN [st EXCEPT !.err = "ValueError"]
             ELSE HeatFrom([st EXCEPT !.mats[ax][rad] = m,
                                      !.temps = Append(@, m.temp)],
                           fis, id + 1, props)

(***************************************************************************)
(* The file system before the run: output files of an earlier run.        *)
(***************************************************************************)
StaleReport == GoodReport(1015000, ProfileB)
Prior(name, rep) == [n \in {name} |-> [rep |-> rep, fresh |-> FALSE]]
EmptyDisk == [n \in {} |-> [rep |-> NoReport, fresh |-> FALSE]]
PriorDisks ==
    { EmptyDisk,
      Prior(<<"a", ".", "o", "u", "t">>, BaseReport),
      Prior(<<"a", "0", "0", "0", "1", ".", "o", "u", "t">>, StaleReport),
      Prior(<<"0", "0", "0", "1", ".", "o", "u", "t">>, BaseReport) }
PriorResults == { <<>>, <<[kind |-> "stale"]>> }

\* the output file a run of the solver leaves
WriteReport(dsk, name, out) ==
    IF out = NoReport THEN dsk
    ELSE [n \in (DOMAIN dsk) \cup {name} |->
            IF n = name THEN [rep |-> out, fresh |-> TRUE] ELSE dsk[n]]

ZeroGrid == [ax \in Rows |-> [rad \in Cols |-> 0]]
ZeroList == [id \in Regions |-> 0]

Init ==
    /\ pc = "input"
    /\ err = ""
    /\ filename = <<>>
    /\ outfilename = <<>>
    /\ materials = [ax \in Rows |-> [rad \in Cols |-> Material(0, 0, 0, 0, 0)]]
    /\ heights = ZeroGrid
    /\ tot_height = 0
    /\ timer = 0
    /\ total_neutrons = 0
    /\ total_fissions = 0
    /\ lifetime = 0 /\ keff = 0 /\ keffmax = 0 /\ nubar = 0
    /\ fission_profile = ZeroList
    /\ fissions = ZeroList
    /\ temperatures = <<>>
    /\ maxtemp = 0
    /\ disk \in PriorDisks
    /\ decks = <<>>
    /\ calls = <<>>
    /\ results \in PriorResults
    /\ solved = <<>>

\* an exception ends the run; what the statements before it have assigned
\* stays assigned
Crash(e) ==
    /\ pc' = "crashed"
    /\ err' = e

(***************************************************************************)
(* main, step by step                                                      *)
(***************************************************************************)
\* lines 73-78: the filename is read; '.inp' is appended when missing
EnterFilename ==
    /\ pc = "input"
    /\ \E name \in FileNames :
         LET fn == NormalizeFilename(name)
         IN  IF Strip(fn, Whitespace) = <<>>
             THEN /\ Crash("ValueError")
                  /\ filename' = fn
                  /\ UNCHANGED <<outfilename, materials, heights, tot_height,
                                 timer, total_neutrons, total_fissions, lifetime,
                                 keff, keffmax, nubar, fission_profile, fissions,
                                 temperatures, maxtemp, env>>
             ELSE /\ filename' = fn
                  /\ pc' = "prelim"
                  /\ UNCHANGED <<err, outfilename, materials, heights, tot_height,
                                 timer, total_neutrons, total_fissions, lifetime,
                                 keff, keffmax, nubar, fission_profile, fissions,
                                 temperatures, maxtemp, env>>

\* lines 79-88: the grid is built and the preliminary deck is written
Preliminary ==
    /\ pc = "prelim"
    /\ tot_height' = INIT_HEIGHT
    /\ materials' = set_materials(INIT_HEIGHT, RAD)
    /\ timer' = 0
    /\ decks' = Append(decks, Deck(filename, materials', tot_height', TRUE))
    /\ pc' = "query0"
    /\ UNCHANGED <<err, filename, outfilename, heights, total_neutrons,
                   total_fissions, lifetime, keff, keffmax, nubar,
                   fission_profile, fissions, temperatures, maxtemp,
                   disk, calls, results, solved>>

\* lines 89-91: batch6.1 runs on the preliminary deck unless its output file
\* is already there
BaselineFrame ==
    UNCHANGED <<err, filename, materials, heights, tot_height, timer,
                total_neutrons, total_fissions, lifetime, keff, keffmax, nubar,
                fission_profile, fissions, temperatures, maxtemp,
                decks, results, solved>>

\* line 90: if not path.isfile(outfilename)
BaselineRuns(dsk, out) == out \notin DOMAIN dsk

BaselineResume ==
    /\ pc = "query0"
    /\ outfilename' = ReplaceInpOut(filename)
    /\ ~ BaselineRuns(disk, outfilename')
    /\ pc' = "init"
    /\ UNCHANGED <<disk, calls>>
    /\ BaselineFrame

BaselineRun ==
    /\ pc = "query0"
    /\ outfilename' = ReplaceInpOut(filename)
    /\ BaselineRuns(disk, outfilename')
    /\ \E out \in SolverOutcomes :
         /\ calls' = Append(calls, [deck |-> filename, at |-> timer])
         /\ disk' = WriteReport(disk, outfilename', out)
    /\ pc' = "init"
    /\ BaselineFrame

\* lines 107-109: results.txt is opened for writing, which empties it, and
\* the header is written
StartResults_append(old) == Append(old, Header)
StartResults(old) == <<Header>>

\* lines 92-110 and 155-158: volumes, masses and the transient data are read
\* from the preliminary report, the results file is started and the t = 0
\* line is recorded.  get_transient raises at line 103, after the volumes and
\* masses are applied; INIT_NEUTRONS / nubar, an int by a Python float, raises
\* at line 105, after the transient data are assigned
Initialize ==
    /\ pc = "init"
    /\ IF outfilename \notin DOMAIN disk
       THEN /\ Crash("FileNotFoundError")
            /\ UNCHANGED <<prog, env>>
       ELSE LET rep == disk[outfilename].rep
                volumes == get_volumes(rep)
                masses == get_masses(rep)
                mats == [ax \in Rows |-> [rad \in Cols |->
                           LET m == materials[ax][rad]
                           IN  append_volume_mass_init(m, volumes[m.matnum],
                                                       masses[m.matnum])]]
                temps == [id \in Regions |-> MatOf(mats, id).temp]
                tr == get_transient(rep)
            IN  /\ materials' = mats
                /\ temperatures' = temps
                /\ maxtemp' = MaxTo(temps, NUM_MATERIALS)
                /\ total_neutrons' = INIT_NEUTRONS
                /\ IF get_transient_fails(rep)
                   THEN /\ Crash("UnboundLocalError")
                        /\ UNCHANGED <<filename, outfilename, heights, tot_height,
                                       timer, total_fissions, lifetime, keff,
                                       keffmax, nubar, fission_profile, fissions,
                                       env>>
                   ELSE /\ lifetime' = tr.lifetime
                        /\ keff' = tr.keff
                        /\ keffmax' = tr.keffmax
                        /\ nubar' = tr.nubar
                        /\ solved' = Append(solved, disk[outfilename])
                        /\ timer' = 0
                        /\ IF tr.nubar = 0
                           THEN /\ Crash("ZeroDivisionError")
                                /\ UNCHANGED <<filename, outfilename, heights,
                                               tot_height, total_fissions,
                                               fission_profile, fissions,
                                               disk, decks, calls, results>>
                           ELSE /\ total_fissions' = (INIT_NEUTRONS * 1000) \div tr.nubar
                                /\ results' = Append(StartResults(results),
                                                     Row(timer', total_fissions',
                                                         maxtemp', lifetime', keff',
                                                         keffmax'))
                                /\ heights' = [ax \in Rows |-> [rad \in Cols |->
                                                 mats[ax][rad].height]]
                                /\ pc' = "loop"
                                /\ UNCHANGED <<err, filename, outfilename,
                                               tot_height, fission_profile,
                                               fissions, disk, decks, calls>>

\* line 161: while keff > 1.0
LoopTest_geq(k) == k >= Floor
LoopTest(k) == k > Floor

\* line 161, the test of the loop failing: the run ends
Terminate ==
    /\ pc = "loop"
    /\ ~ LoopTest(keff)
    /\ pc' = "Terminated"
    /\ UNCHANGED <<err, prog, env>>

\* lines 161-169: the loop test holds; time advances, the previous report is
\* read for the fission profile, the population is propagated and the
\* fissions are distributed.  count_fissions divides by the sum of the table
\* and propagate_neutrons by the lifetime, Python numbers both
Kinetics ==
    /\ pc = "loop"
    /\ LoopTest(keff)
    /\ timer < MaxTicks * DELTA_T
    /\ timer' = timer + DELTA_T
    /\ LET rep == disk[outfilename].rep
       IN  IF fissionsum(rep) = 0
           THEN /\ Crash("ZeroDivisionError")
                /\ UNCHANGED <<filename, outfilename, materials, heights,
                               tot_height, total_neutrons, total_fissions,
                               lifetime, keff, keffmax, nubar, fission_profile,
                               fissions, temperatures, maxtemp, env>>
           ELSE /\ fission_profile' = count_fissions(rep)
                /\ IF lifetime = 0
                   THEN /\ Crash("ZeroDivisionError")
                        /\ UNCHANGED <<filename, outfilename, materials, heights,
                                       tot_height, total_neutrons, total_fissions,
                                       lifetime, keff, keffmax, nubar,
                                       fissions, temperatures, maxtemp, env>>
                   ELSE /\ total_neutrons' =
                             propagate_neutrons(keff, lifetime, total_neutrons)
                        /\ fissions' =
                             distribute(fission_profile', total_neutrons', nubar)
                        /\ total_fissions' = FSumTo(fissions', NUM_MATERIALS)
                        /\ pc' = "expand"
                        /\ UNCHANGED <<err, filename, outfilename, materials,
                                       heights, tot_height, lifetime, keff,
                                       keffmax, nubar, temperatures, maxtemp, env>>

\* lines 171-181: every region is shifted onto the region below it and
\* expanded; the total height follows the tallest region.  An exception
\* leaves the regions before it expanded
Expansion ==
    /\ pc = "expand"
    /\ \E props \in PropsChoices(materials) :
         LET r == ExpandFrom([mats |-> materials, hts |-> heights,
                              tot |-> tot_height, err |-> ""], 1, props)
         IN  /\ materials' = r.mats
             /\ heights' = r.hts
             /\ tot_height' = r.tot
             /\ IF r.err # ""
                THEN Crash(r.err)
                ELSE pc' = "query" /\ UNCHANGED err
             /\ UNCHANGED <<filename, outfilename, timer, total_neutrons,
                            total_fissions, lifetime, keff, keffmax, nubar,
                            fission_profile, fissions, temperatures, maxtemp,
                            env>>

\* the volcalc argument of the write_file call of the loop (line 186)
TickVolcalc == TRUE

\* line 187: system("batch6.1 ...") is called whatever files exist
TickRuns_ifabsent(dsk, out) == out \notin DOMAIN dsk
TickRuns(dsk, out) == TRUE

\* lines 182-188: the deck of the tick is named and written, batch6.1 runs
Query ==
    /\ pc = "query"
    /\ filename' = NextFilename(filename, timer)
    /\ decks' = Append(decks, Deck(filename', materials, tot_height, TickVolcalc))
    /\ outfilename' = ReplaceInpOut(filename')
    /\ IF TickRuns(disk, outfilename')
       THEN \E out \in TickOutcomes :
              /\ calls' = Append(calls, [deck |-> filename', at |-> timer])
              /\ disk' = WriteReport(disk, outfilename', out)
       ELSE UNCHANGED <<calls, disk>>
    /\ pc' = "parse"
    /\ UNCHANGED <<err, materials, heights, tot_height, timer, total_neutrons,
                   total_fissions, lifetime, keff, keffmax, nubar,
                   fission_profile, fissions, temperatures, maxtemp,
                   results, solved>>

\* line 189: the transient data of the new report
Parse ==
    /\ pc = "parse"
    /\ IF outfilename \notin DOMAIN disk
       THEN Crash("FileNotFoundError") /\ UNCHANGED <<prog, env>>
       ELSE LET rep == disk[outfilename].rep
                tr == get_transient(rep)
            IN  IF get_transient_fails(rep)
                THEN Crash("UnboundLocalError") /\ UNCHANGED <<prog, env>>
                ELSE /\ lifetime' = tr.lifetime
                     /\ keff' = tr.keff
                     /\ keffmax' = tr.keffmax
                     /\ nubar' = tr.nubar
                     /\ solved' = Append(solved, disk[outfilename])
                     /\ pc' = "heat"
                     /\ UNCHANGED <<err, filename, outfilename, materials, heights,
                                    tot_height, timer, total_neutrons,
                                    total_fissions, fission_profile, fissions,
                                    temperatures, maxtemp, disk, decks, calls,
                                    results>>

\* lines 190-198 with fis for the fissions: every region is heated and the
\* tick is recorded.  An exception leaves the regions before it heated and
\* their temperatures in the list
HeatWith(fis) ==
    /\ pc = "heat"
    /\ \E props \in PropsChoices(materials) :
         LET r == HeatFrom([mats |-> materials, temps |-> <<>>, err |-> ""],
                           fis, 1, props)
         IN  /\ materials' = r.mats
             /\ temperatures' = r.temps
             /\ IF r.err # ""
                THEN /\ Crash(r.err)
                     /\ UNCHANGED <<maxtemp, results>>
                ELSE /\ maxtemp' = MaxTo(r.temps, NUM_MATERIALS)
                     /\ results' = Append(results, Row(timer, total_fissions, maxtemp',
                                                       lifetime, keff, keffmax))
                     /\ pc' = "loop"
                     /\ UNCHANGED err
             /\ UNCHANGED <<filename, outfilename, heights, tot_height, timer,
                            total_neutrons, total_fissions, lifetime, keff,
                            keffmax, nubar, fission_profile, fissions,
                            disk, decks, calls, solved>>

\* Heat with the fissions distributed anew from the report just parsed
Heat_unlagged ==
    HeatWith(IF fissionsum(disk[outfilename].rep) = 0 THEN fissions
             ELSE distribute(count_fissions(disk[outfilename].rep),
                             total_neutrons, nubar))

\* lines 190-198: every region is heated by its fissions and the tick is
\* recorded
Heat == HeatWith(fissions)

Next ==
    \/ EnterFilename
    \/ Preliminary
    \/ BaselineResume
    \/ BaselineRun
    \/ Initialize
    \/ Terminate
    \/ Kinetics
    \/ Expansion
    \/ Query
    \/ Parse
    \/ Heat

Spec == Init /\ [][Next]_vars

TypeOK ==
    /\ pc \in {"input", "prelim", "query0", "init", "loop", "expand", "query",
               "parse", "heat", "Terminated", "crashed"}
    /\ timer \in 0..((MaxTicks + 1) * DELTA_T)

(***************************************************************************)
(* Properties                                                              *)
(***************************************************************************)
ResultRows == SelectSeq(results, LAMBDA l : l.kind = "row")
InTick == pc \in {"expand", "query", "parse", "heat"}
TickNo == timer \div DELTA_T

\* C1: the expansion loop runs a tick only while the k-eff reported last is
\* above the floor: every recorded k-eff but the last is above the floor, a
\* tick in progress was entered from a k-eff above the floor, the run is
\* Terminated only on a recorded k-eff at or below the floor with one deck per
\* recorded line, and once Terminated no deck is written, no solver run is
\* made and no line is recorded.
C1_State ==
    /\ \A i \in 1..(Len(ResultRows) - 1) : ResultRows[i].keff > Floor
    /\ InTick => \A i \in 1..Len(ResultRows) : ResultRows[i].keff > Floor
    /\ pc = "Terminated" =>
         /\ ResultRows # <<>>
         /\ ResultRows[Len(ResultRows)].keff <= Floor
         /\ Len(decks) = Len(ResultRows)
         /\ Len(ResultRows) = TickNo + 1
C1_TerminatesAtFloor ==
    /\ []C1_State
    /\ [][pc = "Terminated" => UNCHANGED <<decks, calls, results, disk>>]_vars

C1_Witness ==
    /\ pc = "Terminated"
    /\ Len(ResultRows) = 2
    /\ ResultRows[1].keff > Floor
    /\ ResultRows[2].keff = Floor

\* C2: no expansion tick (the grid expanded in place) is executed before a
\* k-eff at or above the ceiling has been reported.
C2_AccumulationFirst ==
    pc = "query" => \E i \in 1..Len(ResultRows) : ResultRows[i].keff >= Ceiling

\* the report of the tick before the current one (the baseline for tick 1)
Lagged == solved[TickNo].rep
LaggedFissions ==
    [id \in Regions |->
       np_div(FMul((Lagged.fis[id] * 1000) \div SumTo(Lagged.fis, NUM_MATERIALS),
                   total_neutrons),
              Lagged.nubar)]
\* region m2 is region m heated by fis fissions
HeatedBy(m, m2, fis) ==
    LET rise == np_div(np_div(FMul(Scale(FMul(fis, 180 * 16022), 10000), 1000),
                              m.mass),
                       SpecHeat(m.temp))
    IN  /\ m2.temp = FAdd(m.temp, rise)
        /\ m2.delta_temp = FSub(m2.temp, m.temp)

\* C3: one-step lag.  In tick n the fission profile and the fission counts
\* are those of the report of tick n-1, the population is propagated with the
\* k-eff and lifetime of that report, and the heating of tick n, done after
\* the report of tick n is parsed, uses exactly those lagged fission counts.
C3_State ==
    InTick =>
       /\ fission_profile =
            [id \in Regions |->
               (Lagged.fis[id] * 1000) \div SumTo(Lagged.fis, NUM_MATERIALS)]
       /\ fissions = LaggedFissions
C3_OneStepLag ==
    /\ []C3_State
    /\ [][(pc = "loop" /\ pc' = "expand") =>
            total_neutrons' =
              propagate_neutrons(solved[Len(solved)].rep.keff,
                                 solved[Len(solved)].rep.lifetime,
                                 total_neutrons)]_vars
    /\ [][(pc = "heat" /\ pc' = "loop") =>
            \A id \in Regions :
               HeatedBy(MatOf(materials, id), MatOf(materials', id),
                        LaggedFissions[id])]_vars

C3_Witness ==
    /\ pc = "loop"
    /\ TickNo = 2
    /\ solved[2].rep.fis # solved[3].rep.fis
    /\ solved[2].rep.keff # solved[3].rep.keff
    /\ solved[1].rep.keff # solved[2].rep.keff
    /\ \E id \in Regions :
         /\ IsFinite(MatOf(materials, id).delta_temp)
         /\ MatOf(materials, id).delta_temp > 0

\* C4: only the baseline query may be skipped, and only when its report
\* existed before the run; every tick's query runs the solver, whatever
\* report files exist.
QueriesIssued ==
    IF pc \in {"parse", "heat", "loop", "Terminated"} THEN TickNo ELSE TickNo - 1
BaselineCalls == SelectSeq(calls, LAMBDA c : c.at = 0)
C4_OnlyBaselineResumes ==
    /\ pc \in {"expand", "query", "parse", "heat", "loop", "Terminated"} =>
         /\ \A n \in 1..QueriesIssued :
              \E i \in 1..Len(calls) :
                 /\ calls[i].at = n * DELTA_T
                 /\ calls[i].deck = decks[n + 1].name
         /\ Len(calls) = QueriesIssued + Len(BaselineCalls)
         /\ Len(BaselineCalls) <= 1
         /\ (BaselineCalls = <<>>) <=> ~ solved[1].fresh
    /\ pc = "init" =>
         ((calls = <<>>) <=> (outfilename \in DOMAIN disk /\ ~ disk[outfilename].fresh))

\* the report of tick 1 has the identity of the baseline report, which
\* existed before the run, and the solver was run for tick 1 all the same
C4_Witness ==
    /\ pc = "heat"
    /\ TickNo = 1
    /\ ~ solved[1].fresh
    /\ decks[2].name = decks[1].name
    /\ calls = <<[deck |-> filename, at |-> DELTA_T]>>
    /\ solved[2].fresh

\* C5: the deck names of a run are pairwise distinct, the baseline's included.
C5_DistinctDecks ==
    \A i, j \in 1..Len(decks) : i # j => decks[i].name # decks[j].name

\* the nu-bar that produced the k-th recorded line: the baseline's for the
\* t = 0 line and for tick 1, the one of tick n-1 for tick n
NubarOfRow(k) == IF k = 1 THEN solved[1].rep.nubar ELSE solved[k - 1].rep.nubar

\* C6: every recorded line was produced from strictly positive heights,
\* volumes and nu-bar (a non-positive one stops the run before recording).
C6_PositiveBeforeRecord ==
    (ResultRows # <<>> /\ pc # "crashed") =>
       /\ \A id \in Regions :
            /\ FLt(0, MatOf(materials, id).height)
            /\ FLt(0, MatOf(materials, id).volume)
       /\ \A k \in 1..Len(ResultRows) : NubarOfRow(k) > 0

\* C7: the t = 0 line is recorded, and the initial volumes and masses are
\* applied, only if the baseline report has a volume and a mass entry for
\* every region.
BaselineApplied ==
    \/ pc \in {"loop", "expand", "query", "parse", "heat", "Terminated"}
    \/ pc = "crashed" /\ temperatures # <<>>
BaselineReport == IF solved # <<>> THEN solved[1].rep ELSE disk[outfilename].rep
C7_BaselineFieldsRequired ==
    BaselineApplied =>
       \A id \in Regions :
          /\ BaselineReport.vols[id] # 0
          /\ BaselineReport.masses[id] # 0

\* C8: every deck written in an expansion tick carries no volume-calculation
\* directive.
C8_NoVolcalcInExpansion ==
    \A i \in 2..Len(decks) : ~ decks[i].volcalc

\* C9: once started, results.txt holds the header, then the t = 0 line, then
\* one line per completed tick, with times 0, dt, 2dt, ...; the line of a
\* tick holds the k-eff and lifetime parsed from that tick's report.
CompletedTicks ==
    IF pc \in {"loop", "Terminated"} THEN {TickNo}
    ELSE IF InTick THEN {TickNo - 1}
    ELSE {TickNo - 1, TickNo}
ResultsStarted ==
    \/ pc \in {"loop", "expand", "query", "parse", "heat", "Terminated"}
    \/ pc = "crashed" /\ timer > 0
C9_OneRecordPerTick ==
    ResultsStarted =>
       /\ results[1] = Header
       /\ \A i \in 2..Len(results) :
            /\ results[i].kind = "row"
            /\ results[i].time = (i - 2) * 10
            /\ i - 1 <= Len(solved)
            /\ results[i].keff = solved[i - 1].rep.keff
            /\ results[i].lifetime = solved[i - 1].rep.lifetime
       /\ Len(results) >= 2
       /\ Len(results) - 2 \in CompletedTicks

C9_Witness ==
    /\ pc = "heat"
    /\ TickNo = 2
    /\ Len(results) = 3
    /\ Len(solved) = 3
    /\ results[3].time = 10

\* C10: row contiguity.  From the building of the grid on, and after every
\* expansion, a region of the bottom row starts at 0 and a region of a row
\* above starts at the height of the region below it in its column.
C10_RowContiguity ==
    pc \notin {"input", "prelim", "crashed"} =>
       \A rad \in Cols :
          /\ materials[1][rad].base_height = 0
          /\ \A ax \in 2..NUM_AXIAL :
               materials[ax][rad].base_height = materials[ax - 1][rad].height

C10_Witness ==
    /\ pc = "query"
    /\ TickNo = 2
    /\ IsFinite(materials[1][1].height)
    /\ materials[1][1].height > calc_heights(INIT_HEIGHT)[1]
    /\ materials[2][1].base_height = materials[1][1].height
    /\ materials[4][1].base_height > calc_heights(INIT_HEIGHT)[3]

\* the states at which the expansion of a tick is done
Expanded == TickNo >= 1 /\ pc \in {"query", "parse", "heat", "loop", "Terminated"}

\* what append_volume_mass_init established from the baseline report
FrameKept(id) ==
    LET m == MatOf(materials, id)
        vol0 == solved[1].rep.vols[id]
    IN  /\ m.atoms = [i \in Nuclides |-> NDENS[i] * vol0]
        /\ m.base = vol0 \div calc_heights(INIT_HEIGHT)[RowOf(id)]
        /\ m.mass = solved[1].rep.masses[id]
        /\ m.matnum = id
        /\ m.radius = calc_radii(RAD)[ColOf(id)]

\* C11 as stated: after the initial volumes and masses are applied, the atom
\* inventory, base area, mass, id and radius of every region stay as they
\* were, and after the expansion of every tick volume = base * height and
\* ndens[i] * 1e24 * volume = atoms[i] exactly, for every nuclide i.
C11_ExactInventory ==
    (solved # <<>> /\ pc # "crashed") =>
       /\ \A id \in Regions : FrameKept(id)
       /\ Expanded =>
            \A id \in Regions :
               LET m == MatOf(materials, id)
               IN  /\ m.volume = FMul(m.base, m.height)
                   /\ \A i \in Nuclides : FMul(m.ndens[i], m.volume) = m.atoms[i]

\* C11 as amended: the same, with ndens[i] the quotient atoms[i] * 1e-24 /
\* volume as the division rounds it: ndens[i] * 1e24 * volume equals atoms[i]
\* up to that rounding while the volume is finite (here: the quotient is
\* rounded down, so the product falls short of atoms[i] by less than one unit
\* of number density times the volume); ndens[i] is 0 for a volume inf and
\* nan for a volume nan.
C11_InventoryConserved ==
    (solved # <<>> /\ pc # "crashed") =>
       /\ \A id \in Regions : FrameKept(id)
       /\ Expanded =>
            \A id \in Regions :
               LET m == MatOf(materials, id)
               IN  /\ m.volume = FMul(m.base, m.height)
                   /\ \A i \in Nuclides :
                        IF IsFinite(m.volume)
                        THEN /\ m.volume > 0
                             /\ m.ndens[i] * m.volume <= m.atoms[i]
                             /\ m.atoms[i] - m.ndens[i] * m.volume < m.volume
                        ELSE m.ndens[i] = (IF m.volume = NaN THEN NaN ELSE 0)

C11_Witness ==
    /\ pc = "loop"
    /\ TickNo = 2
    /\ \E id \in Regions :
         LET m == MatOf(materials, id)
         IN  /\ m.height # calc_heights(INIT_HEIGHT)[RowOf(id)]
             /\ m.volume # solved[1].rep.vols[id]
             /\ m.ndens # NDENS
             /\ m.ndens[1] * m.volume # m.atoms[1]

\* the states of tick 1 at which its expansion is done
FirstExpanded ==
    TickNo = 1 /\ pc \in {"query", "parse", "heat", "loop", "Terminated"}

GeometryAsBuilt(id) ==
    LET m == MatOf(materials, id)
    IN  /\ m.height = calc_heights(INIT_HEIGHT)[RowOf(id)]
        /\ m.base_height = row_base(calc_heights(INIT_HEIGHT), RowOf(id))

\* the height a region gets in the expansion of a tick: its height, the shift
\* onto the region below, and the growth by the temperature delta it had
\* before the tick
GrowsByOldDelta(ax, rad) ==
    LET m == materials[ax][rad]
        sh == IF ax = 1 THEN 0
              ELSE FSub(materials'[ax - 1][rad].height, m.base_height)
    IN  /\ materials'[ax][rad].height =
             FAdd(FAdd(m.height, sh),
                  Scale(np_div(FMul(FMul(m.delta_temp, m.volume),
                                    ExpansionCoeff(m.temp)), m.base), 100000))
        /\ materials'[ax][rad].delta_temp = m.delta_temp
        /\ materials'[ax][rad].temp = m.temp

C12_Order ==
    /\ [][(pc = "expand" /\ pc' = "query") =>
            \A ax \in Rows : \A rad \in Cols : GrowsByOldDelta(ax, rad)]_vars
    /\ [][(pc \in {"loop", "expand", "query", "parse"}) =>
            \A id \in Regions :
               /\ MatOf(materials', id).delta_temp = MatOf(materials, id).delta_temp
               /\ MatOf(materials', id).temp = MatOf(materials, id).temp]_vars

\* C12 as stated: expand runs before the heating of the tick, so the growth
\* of tick n is driven by the temperature delta recorded in tick n-1; in
\* tick 1 (delta 0) height, base_height, volume and number densities of every
\* region are unchanged and the deck geometry of tick 1 is the baseline's.
C12_State ==
    /\ (TickNo = 1 /\ pc = "expand") =>
          \A id \in Regions : MatOf(materials, id).delta_temp = 0
    /\ FirstExpanded =>
         /\ \A id \in Regions :
              /\ GeometryAsBuilt(id)
              /\ MatOf(materials, id).volume = solved[1].rep.vols[id]
              /\ MatOf(materials, id).ndens = NDENS
         /\ Len(decks) >= 2 => decks[2].geometry = decks[1].geometry
C12_FirstTickUnchanged == []C12_State /\ C12_Order

\* C12 as amended: the same, with volume and number densities unchanged in
\* tick 1 up to the rounding of volume / height * height and of
\* atoms * 1e-24 / volume (here: quotients are rounded down).
C12_StateRounded ==
    /\ (TickNo = 1 /\ pc = "expand") =>
          \A id \in Regions : MatOf(materials, id).delta_temp = 0
    /\ FirstExpanded =>
         /\ \A id \in Regions :
              LET m == MatOf(materials, id)
                  vol0 == solved[1].rep.vols[id]
              IN  /\ GeometryAsBuilt(id)
                  /\ m.volume <= vol0
                  /\ vol0 - m.volume < m.height
                  /\ \A i \in Nuclides :
                       /\ m.ndens[i] * m.volume <= NDENS[i] * vol0
                       /\ NDENS[i] * vol0 - m.ndens[i] * m.volume < m.volume
         /\ Len(decks) >= 2 => decks[2].geometry = decks[1].geometry
C12_ExpandBeforeHeat == []C12_StateRounded /\ C12_Order

C12_Witness ==
    /\ pc = "parse"
    /\ TickNo = 2
    /\ Len(decks) = 3
    /\ solved[1].rep.vols = MeasuredVols
    /\ decks[2].geometry = decks[1].geometry
    /\ decks[3].geometry # decks[2].geometry
    /\ \E id \in Regions :
         /\ IsFinite(MatOf(materials, id).delta_temp)
         /\ MatOf(materials, id).delta_temp > 0

====
